---- MODULE Spec2Model ----
(***************************************************************************)
(* HighPrecisionClock (src/src/lib.rs): a clock baseline                   *)
(* (base counter, base_datetime, cpu_frequency_hz, warning_threshold_ns)   *)
(* behind an Arc<RwLock<..>>, read by any number of threads through now()  *)
(* and rebased by one supervisor, periodic_drift_correction, that calls    *)
(* reset_baselines under the write lock.                                   *)
(*                                                                         *)
(* Time is discrete.  `wall` is what Utc::now() returns (nanoseconds);     *)
(* `counter` is what the build's counter returns: _rdtsc() cycles with the *)
(* `tsc` feature, Instant nanoseconds without it.  The two advance         *)
(* independently (rate error, slewing) and the wall clock can be stepped   *)
(* back; the counter never decreases.                                      *)
(***************************************************************************)
EXTENDS Integers, FiniteSets, Sequences, TLC

\* Bounds of the model.
MaxWall == 3
MaxCounter == 3

\* Program constants.
NS_PER_SEC == 1000000000
HZ_PER_MHZ == 1000000

\* The largest duration TimeDelta::num_nanoseconds can return (i64::MAX
\* nanoseconds, about 292 years), scaled to the model's wall-clock range: a
\* DateTime<Utc> spans far more than an i64 of nanoseconds.
NanosMax == 2

\* Inputs.
Readers == {1, 2}
Thresholds == {1, 2}
CpuMHz == {500, 2000}
NoRead == 0 - 1

VARIABLES
    tsc,            \* cfg(all(feature = "tsc", linux, x86_64))
    async,          \* cfg(feature = "async")
    wall,           \* environment: Utc::now()
    counter,        \* environment: get_time() / Instant::now()
    clock,          \* the HighPrecisionClock inside the RwLock
    poisoned,       \* std::sync::RwLock poison flag
    new_pc,         \* position of HighPrecisionClock::new
    invariant_tsc,  \* what check_invariant_tsc returned to new
    sup_pc,         \* position of periodic_drift_correction
    sup_sys_time,   \* reset_baselines: local sys_time
    sup_drift,      \* reset_baselines: local drift (signed)
    reader_pc,      \* per reader: position in clock.read().unwrap().now()
    log,            \* message emitted by the latest step of new or the supervisor
    last_now,       \* history: result of the most recent now() of a reader
    epoch_reads,    \* history: reads since the last reset completed (capped at 2)
    neg_recal,      \* history: a reset with sys_time < now() completed since the last read
    still_passes,   \* history: resets started since time last advanced (capped at 2)
    skipped         \* history: ticks skipped on a poisoned lock (capped at 2)

vars == <<tsc, async, wall, counter, clock, poisoned, new_pc, invariant_tsc,
          sup_pc, sup_sys_time, sup_drift, reader_pc, log, last_now,
          epoch_reads, neg_recal, still_passes, skipped>>

env == <<wall, counter>>
build == <<tsc, async>>
history == <<last_now, epoch_reads, neg_recal, still_passes, skipped>>
sup_locals == <<sup_sys_time, sup_drift>>

Abs(x) == IF x < 0 THEN 0 - x ELSE x
Cap2(n) == IF n >= 2 THEN 2 ELSE n

(***************************************************************************)
(* The fast read path.                                                     *)
(***************************************************************************)

\* The base counter of the build: base_tsc or base_instant.
BaseCounter(self) == IF tsc THEN self.base_tsc ELSE self.base_instant

\* (elapsed_cycles as f64 / cpu_frequency_hz) * 1_000_000_000.0, then `as i64`
\* (truncation).  cpu_frequency_hz is a whole number of MHz (freq_mhz * 1e6),
\* so the quotient is elapsed_cycles * 1000 / MHz; for the cycle counts of this
\* model the f64 result truncates to the exact integer quotient.
ElapsedNsTsc(elapsed_cycles, hz) ==
    (elapsed_cycles * (NS_PER_SEC \div HZ_PER_MHZ)) \div (hz \div HZ_PER_MHZ)

\* elapsed.as_nanos() as i64: the Instant difference, unscaled.
ElapsedNsInstant(current, base_instant) == current - base_instant

now_reversed(self, current) ==
    IF tsc
    THEN self.base_datetime
         - ElapsedNsTsc(current - self.base_tsc, self.cpu_frequency_hz)
    ELSE self.base_datetime - ElapsedNsInstant(current, self.base_instant)

now_scaled(self, current) ==
    IF tsc
    THEN self.base_datetime
         + ElapsedNsTsc(current - self.base_tsc, self.cpu_frequency_hz)
    ELSE self.base_datetime
         + ElapsedNsTsc(ElapsedNsInstant(current, self.base_instant),
                        2 * NS_PER_SEC)

\* HighPrecisionClock::now with `current` the counter value it samples.
now(self, current) ==
    IF tsc
    THEN self.base_datetime
         + ElapsedNsTsc(current - self.base_tsc, self.cpu_frequency_hz)
    ELSE self.base_datetime + ElapsedNsInstant(current, self.base_instant)

(***************************************************************************)
(* The reader-writer lock.                                                 *)
(***************************************************************************)

WriteHeld_kept ==
    sup_pc \in {"err", "utc_now", "now", "get_time", "unlock", "sleep", "write"}
\* The supervisor holds the write guard from a successful (or poisoned)
\* write() to the end of the loop iteration.
WriteHeld == sup_pc \in {"err", "utc_now", "now", "get_time", "unlock"}
ReadHeld == \E r \in Readers : reader_pc[r] = "locked"

ReadAdmitted_unlocked == TRUE
\* RwLock::read is granted when no writer holds the lock.
ReadAdmitted == ~WriteHeld

\* RwLock::write is granted when nobody holds the lock.
WriteAdmitted == ~WriteHeld /\ ~ReadHeld

\* Between `self.base_datetime = sys_time` and the store of the base counter
\* the struct pairs the new base_datetime with the old base counter.
MixedBaseline == sup_pc = "get_time"

(***************************************************************************)
(* Initial state: before HighPrecisionClock::new runs.                     *)
(***************************************************************************)
Init ==
    /\ tsc \in BOOLEAN
    /\ async \in BOOLEAN
    /\ wall = 0
    /\ counter = 0
    /\ \E th \in Thresholds :
         clock = [base_tsc |-> 0, base_instant |-> 0, base_datetime |-> 0,
                  cpu_frequency_hz |-> 0, warning_threshold_ns |-> th]
    /\ poisoned = FALSE
    /\ new_pc = "utc_now"
    /\ invariant_tsc = "unset"
    /\ sup_pc = "unspawned"
    /\ sup_sys_time = 0
    /\ sup_drift = 0
    /\ reader_pc = [r \in Readers |-> "idle"]
    /\ log = "none"
    /\ last_now = NoRead
    /\ epoch_reads = 0
    /\ neg_recal = FALSE
    /\ still_passes = 0
    /\ skipped = 0

(***************************************************************************)
(* Environment.                                                            *)
(***************************************************************************)
CounterTick ==
    /\ counter < MaxCounter
    /\ counter' = counter + 1
    /\ still_passes' = 0
    /\ UNCHANGED <<build, wall, clock, poisoned, new_pc, invariant_tsc, sup_pc,
                   sup_locals, reader_pc, log, last_now, epoch_reads,
                   neg_recal, skipped>>

WallTick ==
    /\ wall < MaxWall
    /\ wall' = wall + 1
    /\ still_passes' = 0
    /\ UNCHANGED <<build, counter, clock, poisoned, new_pc, invariant_tsc,
                   sup_pc, sup_locals, reader_pc, log, last_now, epoch_reads,
                   neg_recal, skipped>>

\* The system clock is stepped back (settimeofday, an NTP step).
WallStepBack ==
    /\ wall > 0
    /\ wall' = wall - 1
    /\ still_passes' = 0
    /\ UNCHANGED <<build, counter, clock, poisoned, new_pc, invariant_tsc,
                   sup_pc, sup_locals, reader_pc, log, last_now, epoch_reads,
                   neg_recal, skipped>>

(***************************************************************************)
(* HighPrecisionClock::new: initialize_clock, check_invariant_tsc, spawn.  *)
(* The locals of initialize_clock are written straight into `clock`; the   *)
(* struct is visible to nobody before new returns.                         *)
(***************************************************************************)

\* What std::fs::read_to_string("/proc/cpuinfo") can yield: an error, or a
\* text with or without a parsable "cpu MHz" line and the two TSC flags.
CpuinfoReads ==
    [ok : BOOLEAN, mhz_line : {"missing", "unparsable", "number"},
     mhz : CpuMHz, constant_tsc : BOOLEAN, nonstop_tsc : BOOLEAN]

\* let base_datetime = Utc::now();
NewUtcNow ==
    /\ new_pc = "utc_now"
    /\ clock' = [clock EXCEPT !.base_datetime = wall]
    /\ new_pc' = "get_time"
    /\ log' = "none"
    /\ UNCHANGED <<build, env, poisoned, invariant_tsc, sup_pc, sup_locals,
                   reader_pc, history>>

\* let base_tsc = get_time();  /  let base_instant = Instant::now();
NewGetTime ==
    /\ new_pc = "get_time"
    /\ clock' = IF tsc THEN [clock EXCEPT !.base_tsc = counter]
                       ELSE [clock EXCEPT !.base_instant = counter]
    /\ new_pc' = IF tsc THEN "cpu_frequency" ELSE "check"
    /\ log' = "none"
    /\ UNCHANGED <<build, env, poisoned, invariant_tsc, sup_pc, sup_locals,
                   reader_pc, history>>

\* get_cpu_frequency: where it ends for one read of /proc/cpuinfo.
get_cpu_frequency(read) ==
    IF ~read.ok THEN "panic_read_cpuinfo"
    ELSE IF read.mhz_line = "missing" THEN "panic_no_frequency"
    ELSE IF read.mhz_line = "unparsable" THEN "panic_parse_frequency"
    ELSE "check"

\* let cpu_frequency_hz = Self::get_cpu_frequency();  (TSC build only)
NewGetCpuFrequency ==
    /\ new_pc = "cpu_frequency"
    /\ \E read \in CpuinfoReads :
         /\ new_pc' = get_cpu_frequency(read)
         /\ clock' = IF get_cpu_frequency(read) = "check"
                     THEN [clock EXCEPT
                             !.cpu_frequency_hz = read.mhz * HZ_PER_MHZ]
                     ELSE clock
         /\ log' = IF get_cpu_frequency(read) = "check"
                   THEN "info_cpu_frequency" ELSE "none"
    /\ UNCHANGED <<build, env, poisoned, invariant_tsc, sup_pc, sup_locals,
                   reader_pc, history>>

\* check_invariant_tsc for one read of /proc/cpuinfo.
check_invariant_tsc(read) ==
    IF ~tsc THEN "None"
    ELSE IF read.ok
         THEN IF read.constant_tsc /\ read.nonstop_tsc
              THEN "SomeTrue" ELSE "SomeFalse"
         ELSE "SomeFalse"

AfterInvariantCheck_abort(res) ==
    IF res = "SomeFalse" THEN "panic_tsc_not_invariant" ELSE "spawn"

\* new after `if let Some(invariant_tsc)`: it goes on to spawn whatever
\* the check returned.
AfterInvariantCheck(res) == "spawn"

\* if let Some(invariant_tsc) = Self::check_invariant_tsc() { error!(..) }
NewCheckInvariantTsc ==
    /\ new_pc = "check"
    /\ \E read \in CpuinfoReads :
         /\ invariant_tsc' = check_invariant_tsc(read)
         /\ log' = IF check_invariant_tsc(read) = "SomeFalse"
                   THEN "error_tsc_not_invariant" ELSE "none"
         /\ new_pc' = AfterInvariantCheck(check_invariant_tsc(read))
    /\ UNCHANGED <<build, env, clock, poisoned, sup_pc, sup_locals, reader_pc,
                   history>>

\* std::thread::spawn / tokio::spawn of the supervisor, then `clock` is returned.
NewSpawn ==
    /\ new_pc = "spawn"
    /\ sup_pc' = "start"
    /\ new_pc' = "returned"
    /\ log' = "none"
    /\ UNCHANGED <<build, env, clock, poisoned, invariant_tsc, sup_locals,
                   reader_pc, history>>

(***************************************************************************)
(* Readers: clock.read().unwrap().now()  (clock.read().await.now()).       *)
(***************************************************************************)

\* clock.read(): blocks while a writer holds the lock.  On a poisoned
\* std::sync::RwLock it returns Err and unwrap() panics; tokio's RwLock
\* does not poison.
ReadLock(r) ==
    /\ new_pc = "returned"
    /\ reader_pc[r] = "idle"
    /\ ReadAdmitted
    /\ reader_pc' = [reader_pc EXCEPT
                       ![r] = IF poisoned /\ ~async THEN "read_err" ELSE "locked"]
    /\ UNCHANGED <<build, env, clock, poisoned, new_pc, invariant_tsc, sup_pc,
                   sup_locals, log, history>>

ReadNow_rebase(r) ==
    /\ reader_pc[r] = "locked"
    /\ last_now' = now(clock, counter)
    /\ clock' = [clock EXCEPT !.base_datetime = now(clock, counter),
                              !.base_tsc = IF tsc THEN counter ELSE @,
                              !.base_instant = IF tsc THEN @ ELSE counter]
    /\ epoch_reads' = Cap2(epoch_reads + 1)
    /\ neg_recal' = FALSE
    /\ reader_pc' = [reader_pc EXCEPT ![r] = "idle"]
    /\ UNCHANGED <<build, env, poisoned, new_pc, invariant_tsc, sup_pc,
                   sup_locals, log, still_passes, skipped>>

\* .now() under the read guard; the guard is a temporary, dropped at the end
\* of the statement.
ReadNow(r) ==
    /\ reader_pc[r] = "locked"
    /\ last_now' = now(clock, counter)
    /\ epoch_reads' = Cap2(epoch_reads + 1)
    /\ neg_recal' = FALSE
    /\ reader_pc' = [reader_pc EXCEPT ![r] = "idle"]
    /\ UNCHANGED <<build, env, clock, poisoned, new_pc, invariant_tsc, sup_pc,
                   sup_locals, log, still_passes, skipped>>

\* A holder of the returned Arc<RwLock<..>> takes clock.write() and panics
\* with the guard alive: std::sync::RwLock is poisoned from then on.
HolderPanicsInWrite ==
    /\ new_pc = "returned"
    /\ ~async
    /\ ~poisoned
    /\ WriteAdmitted
    /\ poisoned' = TRUE
    /\ UNCHANGED <<build, env, clock, new_pc, invariant_tsc, sup_pc,
                   sup_locals, reader_pc, log, history>>

(***************************************************************************)
(* The supervisor: periodic_drift_correction and reset_baselines.          *)
(* sleep(calibration_int) returns after any amount of model time, none     *)
(* included: the interval is an arbitrary Duration.                        *)
(***************************************************************************)

\* The spawned closure: info!("Starting time drift correction"), then the loop.
SupStart ==
    /\ sup_pc = "start"
    /\ sup_pc' = "sleep"
    /\ log' = "info_starting"
    /\ UNCHANGED <<build, env, clock, poisoned, new_pc, invariant_tsc,
                   sup_locals, reader_pc, history>>

\* sleep(calibration_int) returns.
SupWake ==
    /\ sup_pc = "sleep"
    /\ sup_pc' = "write"
    /\ log' = "none"
    /\ UNCHANGED <<build, env, clock, poisoned, new_pc, invariant_tsc,
                   sup_locals, reader_pc, history>>

\* clock.write(): granted when the lock is free.  std's write() on a
\* poisoned lock returns Err(PoisonError) holding the guard; tokio's has no
\* error.
SupWrite ==
    /\ sup_pc = "write"
    /\ WriteAdmitted
    /\ sup_pc' = IF poisoned /\ ~async THEN "err" ELSE "utc_now"
    /\ log' = "none"
    /\ UNCHANGED <<build, env, clock, poisoned, new_pc, invariant_tsc,
                   sup_locals, reader_pc, history>>

LockErrContinue_return == "exited"
\* Err(e) => { error!(..); continue; }: back to the top of the loop.
LockErrContinue == "sleep"

\* The Err arm: the failure is logged, `e` (and the guard in it) is dropped.
SupLockErr ==
    /\ sup_pc = "err"
    /\ log' = "error_lock"
    /\ sup_pc' = LockErrContinue
    /\ skipped' = Cap2(skipped + 1)
    /\ UNCHANGED <<build, env, clock, poisoned, new_pc, invariant_tsc,
                   sup_locals, reader_pc, last_now, epoch_reads, neg_recal,
                   still_passes>>

\* reset_baselines: let sys_time = Utc::now();
SupUtcNow ==
    /\ sup_pc = "utc_now"
    /\ sup_sys_time' = wall
    /\ sup_pc' = "now"
    /\ log' = "none"
    /\ still_passes' = Cap2(still_passes + 1)
    /\ UNCHANGED <<build, env, clock, poisoned, new_pc, invariant_tsc,
                   sup_drift, reader_pc, last_now, epoch_reads, neg_recal,
                   skipped>>

InstalledDatetime_kept(self, sys_time) == self.base_datetime
\* self.base_datetime = sys_time;
InstalledDatetime(self, sys_time) == sys_time

SupDrift_datetime_only ==
    /\ sup_pc = "now"
    /\ sup_drift' = 0
    /\ sup_sys_time' = 0
    /\ clock' = [clock EXCEPT
                   !.base_datetime = InstalledDatetime(clock, sup_sys_time)]
    /\ sup_pc' = "unlock"
    /\ log' = "none"
    /\ UNCHANGED <<build, env, poisoned, new_pc, invariant_tsc, reader_pc,
                   history>>

\* let drift = sys_time - self.now();  self.base_datetime = sys_time;
\* now() samples the counter; the drift is taken from the baseline as it
\* was before the store.
SupDrift ==
    /\ sup_pc = "now"
    /\ sup_drift' = sup_sys_time - now(clock, counter)
    /\ clock' = [clock EXCEPT
                   !.base_datetime = InstalledDatetime(clock, sup_sys_time)]
    /\ sup_pc' = "get_time"
    /\ log' = "none"
    /\ UNCHANGED <<build, env, poisoned, new_pc, invariant_tsc, sup_sys_time,
                   reader_pc, history>>

InstalledCounter_stale(self, current) == BaseCounter(self)
InstalledCounter_delta(self, current) == current - BaseCounter(self)
InstalledCounter_ahead(self, current) == current + 1
\* self.base_instant = Instant::now();  /  self.base_tsc = get_time();
InstalledCounter(self, current) == current

\* drift.num_nanoseconds().unwrap_or_default().abs(): num_nanoseconds is
\* None when the duration does not fit an i64 of nanoseconds, and the
\* default is 0.
DriftNs(drift) == IF Abs(drift) > NanosMax THEN 0 ELSE Abs(drift)

\* if drift_ns >= self.warning_threshold_ns { warn!(..) } else { trace!(..) }
DriftLevel(self, drift_ns) ==
    IF drift_ns >= self.warning_threshold_ns THEN "warn_drift" ELSE "trace_drift"

SupGetTime_recompute ==
    /\ sup_pc = "get_time"
    /\ \E mhz \in CpuMHz :
         clock' = IF tsc
                  THEN [clock EXCEPT !.base_tsc = InstalledCounter(clock, counter),
                                     !.cpu_frequency_hz = mhz * HZ_PER_MHZ]
                  ELSE [clock EXCEPT
                          !.base_instant = InstalledCounter(clock, counter)]
    /\ log' = DriftLevel(clock, DriftNs(sup_drift))
    /\ sup_pc' = "unlock"
    /\ sup_sys_time' = 0
    /\ sup_drift' = 0
    /\ epoch_reads' = 0
    /\ neg_recal' = (neg_recal \/ sup_drift < 0)
    /\ UNCHANGED <<build, env, poisoned, new_pc, invariant_tsc, reader_pc,
                   last_now, still_passes, skipped>>

\* The store of the base counter and the log line; reset_baselines returns
\* and its locals are gone.
SupGetTime ==
    /\ sup_pc = "get_time"
    /\ clock' = IF tsc
                THEN [clock EXCEPT !.base_tsc = InstalledCounter(clock, counter)]
                ELSE [clock EXCEPT
                        !.base_instant = InstalledCounter(clock, counter)]
    /\ log' = DriftLevel(clock, DriftNs(sup_drift))
    /\ sup_pc' = "unlock"
    /\ sup_sys_time' = 0
    /\ sup_drift' = 0
    /\ epoch_reads' = 0
    /\ neg_recal' = (neg_recal \/ sup_drift < 0)
    /\ UNCHANGED <<build, env, poisoned, new_pc, invariant_tsc, reader_pc,
                   last_now, still_passes, skipped>>

SupUnlock_once ==
    /\ sup_pc = "unlock"
    /\ sup_pc' = "exited"
    /\ log' = "none"
    /\ UNCHANGED <<build, env, clock, poisoned, new_pc, invariant_tsc,
                   sup_locals, reader_pc, history>>

\* End of the loop body: the write guard is dropped, the loop sleeps again.
SupUnlock ==
    /\ sup_pc = "unlock"
    /\ sup_pc' = "sleep"
    /\ log' = "none"
    /\ UNCHANGED <<build, env, clock, poisoned, new_pc, invariant_tsc,
                   sup_locals, reader_pc, history>>

(***************************************************************************)
(* The system.                                                             *)
(***************************************************************************)
Next ==
    \/ CounterTick
    \/ WallTick
    \/ WallStepBack
    \/ NewUtcNow
    \/ NewGetTime
    \/ NewGetCpuFrequency
    \/ NewCheckInvariantTsc
    \/ NewSpawn
    \/ \E r \in Readers : ReadLock(r)
    \/ \E r \in Readers : ReadNow(r)
    \/ HolderPanicsInWrite
    \/ SupStart
    \/ SupWake
    \/ SupWrite
    \/ SupLockErr
    \/ SupUtcNow
    \/ SupDrift
    \/ SupGetTime
    \/ SupUnlock

Spec == Init /\ [][Next]_vars

TypeOK ==
    /\ tsc \in BOOLEAN /\ async \in BOOLEAN /\ poisoned \in BOOLEAN
    /\ wall \in 0..MaxWall /\ counter \in 0..MaxCounter
    /\ clock.warning_threshold_ns \in Thresholds
    /\ BaseCounter(clock) \in 0..MaxCounter
    /\ clock.base_datetime \in 0..MaxWall
    /\ new_pc \in {"utc_now", "get_time", "cpu_frequency", "check", "spawn",
                   "returned", "panic_read_cpuinfo", "panic_no_frequency",
                   "panic_parse_frequency"}
    /\ invariant_tsc \in {"unset", "None", "SomeTrue", "SomeFalse"}
    /\ sup_pc \in {"unspawned", "start", "sleep", "write", "err", "utc_now",
                   "now", "get_time", "unlock"}
    /\ reader_pc \in [Readers -> {"idle", "locked", "read_err"}]
    /\ epoch_reads \in 0..2 /\ still_passes \in 0..2 /\ skipped \in 0..2
    /\ neg_recal \in BOOLEAN

(***************************************************************************)
(* Properties.                                                             *)
(***************************************************************************)

\* The step in which reader r evaluates now() under its read guard.
ReadNowStep(r) == reader_pc[r] = "locked" /\ reader_pc'[r] = "idle"

\* The step in which reset_baselines stores the base counter and returns.
ResetCompletes == sup_pc = "get_time" /\ sup_pc' = "unlock"

\* C1: two reads of now() with no reset_baselines between them are ordered:
\* the later one returns a value >= the earlier one (the counter never
\* decreases).
C1_Monotonic ==
    [][\A r \in Readers :
         (ReadNowStep(r) /\ epoch_reads >= 1) => last_now' >= last_now]_vars

\* Two reads were made under the current baseline, the later one after the
\* counter had moved on from the base counter.
C1_Witness == epoch_reads = 2 /\ last_now > clock.base_datetime

\* C2: a reader that holds the read guard, and so evaluates now(), never
\* finds the new base_datetime paired with the old base counter.
C2_NoTornRead == \A r \in Readers : reader_pc[r] = "locked" => ~MixedBaseline

\* Every reader holds its read guard while the supervisor has woken up and
\* waits in clock.write() to recalibrate.
C2_Witness ==
    /\ \A r \in Readers : reader_pc[r] = "locked"
    /\ sup_pc = "write"
    /\ last_now # NoRead

\* C3: once new() has returned, taking the read access and calling now()
\* never fails, whatever ticks of the supervisor came before.
C3_ReadsNeverFail == \A r \in Readers : reader_pc[r] # "read_err"

\* C4 as claimed: successive results of now() never decrease, reads
\* separated by recalibrations included.
C4_Original ==
    [][\A r \in Readers :
         (ReadNowStep(r) /\ last_now # NoRead) => last_now' >= last_now]_vars

\* C4 as amended: successive results of now() never decrease as long as no
\* reset between the two reads found the clock ahead of the system time
\* (sys_time - now() < 0).
C4_Amended ==
    [][\A r \in Readers :
         (ReadNowStep(r) /\ last_now # NoRead /\ ~neg_recal)
            => last_now' >= last_now]_vars

\* A reader evaluates now() after a read, then a reset that found the clock
\* not ahead of the system time.
C4_Witness ==
    /\ last_now # NoRead
    /\ epoch_reads = 0
    /\ ~neg_recal
    /\ \E r \in Readers : reader_pc[r] = "locked"
    /\ now(clock, counter) > last_now

\* C5 as claimed: in the state right after reset_baselines completes,
\* |wall - now()| <= warning_threshold_ns.
C5_Original ==
    [][ResetCompletes
         => Abs(wall' - now(clock', counter')) <= clock'.warning_threshold_ns]_vars

\* C5 as amended: in the state right after reset_baselines completes, now()
\* is the wall-clock sample sys_time of that reset, so |wall - now()| is what
\* the wall clock moved between that sample and the counter sample.
C5_Amended ==
    [][ResetCompletes
         => /\ now(clock', counter') = sup_sys_time
            /\ Abs(wall' - now(clock', counter')) = Abs(wall - sup_sys_time)]_vars

\* A reset has just completed (the counter is still at the new base) and
\* the wall clock is further from the baseline than the threshold.
C5_Witness ==
    /\ sup_pc = "unlock"
    /\ BaseCounter(clock) = counter
    /\ Abs(wall - now(clock, counter)) > clock.warning_threshold_ns

\* C6: a tick whose drift is below warning_threshold_ns leaves base_datetime
\* and the base counter unchanged.
C6_ThresholdDecides ==
    [][/\ (sup_pc = "now" /\ sup_pc' = "get_time"
           /\ DriftNs(sup_drift') < clock.warning_threshold_ns)
          => clock'.base_datetime = clock.base_datetime
       /\ (ResetCompletes /\ DriftNs(sup_drift) < clock.warning_threshold_ns)
          => BaseCounter(clock') = BaseCounter(clock)]_vars

\* C7: without the TSC path, every now() of a reader returns
\* base_datetime + (m - base_instant) for the Instant reading m >= base_instant.
C7_Fallback ==
    [][\A r \in Readers :
         (ReadNowStep(r) /\ ~tsc)
            => /\ counter >= clock.base_instant
               /\ last_now' = clock.base_datetime
                              + (counter - clock.base_instant)]_vars

\* A fallback-build reader has read after the Instant moved on from
\* base_instant.
C7_Witness == ~tsc /\ epoch_reads >= 1 /\ last_now > clock.base_datetime

\* C8 as claimed: construction does not abort when /proc/cpuinfo cannot be
\* read, nor when the capability check yields Some(false).
C8_Original ==
    /\ new_pc # "panic_read_cpuinfo"
    /\ invariant_tsc = "SomeFalse" => new_pc \in {"spawn", "returned"}

\* C8 as amended: when check_invariant_tsc yields Some(false), new logs an
\* error, spawns the supervisor and returns; when /proc/cpuinfo cannot be
\* read by get_cpu_frequency, new panics before the check and spawns nothing.
C8_Amended ==
    /\ invariant_tsc = "SomeFalse"
         => /\ new_pc \in {"spawn", "returned"}
            /\ new_pc = "spawn" => log = "error_tsc_not_invariant"
            /\ new_pc = "returned" => sup_pc # "unspawned"
    /\ new_pc = "panic_read_cpuinfo"
         => invariant_tsc = "unset" /\ sup_pc = "unspawned"

\* The check yielded Some(false), new returned, the supervisor sleeps and a
\* reader has read the clock.
C8_Witness ==
    /\ invariant_tsc = "SomeFalse"
    /\ new_pc = "returned"
    /\ sup_pc = "sleep"
    /\ epoch_reads >= 1

\* C9: a reset started with no time elapsed since the start of the reset
\* before it leaves the clock as that reset left it, and a reset during
\* which no time elapses ends with the baseline at the current samples.
C9_Idempotent ==
    [][/\ (still_passes = 2 /\ sup_pc \in {"now", "get_time"}) => clock' = clock
       /\ (ResetCompletes /\ still_passes >= 1)
          => /\ clock'.base_datetime = wall'
             /\ BaseCounter(clock') = counter'
             /\ now(clock', counter') = wall']_vars

\* The second of two resets run with no time elapsed has completed.
C9_Witness == still_passes = 2 /\ sup_pc = "unlock"

\* C10: on a poisoned lock the supervisor logs the failure, leaves the clock
\* unchanged and goes back to sleep; the loop never exits.
C10_SkipTick ==
    /\ [][sup_pc = "err"
            => /\ clock' = clock
               /\ sup_pc' # "err" => (sup_pc' = "sleep" /\ log' = "error_lock")]_vars
    /\ [](sup_pc # "exited")
    /\ [](poisoned => sup_pc \notin {"utc_now", "now", "get_time", "unlock"})

\* Two ticks in a row were skipped on the poisoned lock: the second was the
\* retry after the next interval.
C10_Witness == skipped = 2 /\ sup_pc = "sleep" /\ poisoned

\* C11: the wall-clock and counter samples and the drift computation of a
\* recalibration are taken while the write lock is not held, so a reader is
\* admitted while the supervisor is at any of them.
C11_SamplesOutsideLock ==
    sup_pc \in {"utc_now", "now", "get_time"} => ~WriteHeld /\ ReadAdmitted

(***************************************************************************)
(* Liveness.  The lock hands over to a waiting writer: tokio's RwLock is   *)
(* a FIFO queue, and std's futex RwLock makes new readers wait once a      *)
(* writer waits.  Every thread that can run does run.                      *)
(***************************************************************************)

\* clock.read() of a reader that arrives while the supervisor waits in
\* clock.write() queues behind it.
ReadLockQueued(r) == sup_pc # "write" /\ ReadLock(r)

\* The loop and the lock depend on the async feature only: the liveness of
\* the cycle is checked of the build without the tsc feature, with the
\* smallest threshold (the threshold selects a log level, nothing else).
FairInit == Init /\ ~tsc /\ clock.warning_threshold_ns = 1

FairNext ==
    \/ CounterTick
    \/ WallTick
    \/ WallStepBack
    \/ NewUtcNow
    \/ NewGetTime
    \/ NewCheckInvariantTsc
    \/ NewSpawn
    \/ \E r \in Readers : ReadLockQueued(r)
    \/ \E r \in Readers : ReadNow(r)
    \/ HolderPanicsInWrite
    \/ SupStart
    \/ SupWake
    \/ SupWrite
    \/ SupLockErr
    \/ SupUtcNow
    \/ SupDrift
    \/ SupGetTime
    \/ SupUnlock

\* The supervisor thread (task) and every reader holding a guard make progress;
\* sleep(calibration_int) returns.
Fairness ==
    /\ WF_vars(SupStart)
    /\ WF_vars(SupWake)
    /\ WF_vars(SupWrite)
    /\ WF_vars(SupLockErr)
    /\ WF_vars(SupUtcNow)
    /\ WF_vars(SupDrift)
    /\ WF_vars(SupGetTime)
    /\ WF_vars(SupUnlock)
    /\ \A r \in Readers : WF_vars(ReadNow(r))

FairSpec == FairInit /\ [][FairNext]_vars /\ Fairness

\* C12 as claimed: every wake-up of the supervisor is eventually followed by
\* the installation of a new baseline.
C12_Original == (sup_pc = "write") ~> (sup_pc = "unlock")

\* C12 as amended: every wake-up is eventually followed by the write access
\* and then either a new baseline or, on a poisoned lock, the skipped tick;
\* the access is released, the supervisor sleeps and wakes again, for ever,
\* and only the return of sleep takes it out of its sleep.
C12_Amended ==
    /\ (sup_pc = "write") ~> (sup_pc = "unlock" \/ (sup_pc = "err" /\ poisoned))
    /\ (sup_pc \in {"unlock", "err", "sleep"}) ~> (sup_pc = "write")
    /\ [][/\ (sup_pc = "sleep" /\ sup_pc' # "sleep")
             => (sup_pc' = "write" /\ reader_pc' = reader_pc)
          /\ (sup_pc # "err" /\ sup_pc' = "err") => (poisoned /\ ~async)]_vars

\* A tick has installed a baseline after a read and the supervisor sleeps
\* again with the lock free.
C12_Witness ==
    /\ sup_pc = "sleep"
    /\ ~poisoned
    /\ last_now # NoRead /\ epoch_reads = 0
    /\ \A r \in Readers : reader_pc[r] = "idle"

(***************************************************************************)
(* Frame conditions of the shared state.                                   *)
(***************************************************************************)

\* C13: a now() of a reader leaves every field of the shared clock as it
\* was, and once new() has returned the clock changes only in a step of the
\* supervisor inside reset_baselines, which changes base_datetime or the
\* base counter and moves no reader.
C13_OnlyInstallationWrites ==
    [][/\ \A r \in Readers : ReadNowStep(r) => clock' = clock
       /\ (new_pc = "returned" /\ clock' # clock)
            => /\ sup_pc \in {"now", "get_time"}
               /\ sup_pc' # sup_pc
               /\ reader_pc' = reader_pc]_vars

\* A reader has read the clock and the supervisor has since installed a new
\* baseline and logged the drift.
C13_Witness ==
    /\ last_now # NoRead
    /\ sup_pc = "unlock"
    /\ log \in {"warn_drift", "trace_drift"}
    /\ clock.base_datetime > 0

\* C14: reset_baselines stores the fresh wall-clock sample in base_datetime
\* and the fresh counter sample in the base counter and nothing else:
\* cpu_frequency_hz and warning_threshold_ns stay, from the return of new()
\* on, what construction made them.
C14_ResetKeepsFactor ==
    [][/\ new_pc = "returned"
            => /\ clock'.cpu_frequency_hz = clock.cpu_frequency_hz
               /\ clock'.warning_threshold_ns = clock.warning_threshold_ns
       /\ (sup_pc = "now" /\ sup_pc' = "get_time")
            => clock' = [clock EXCEPT !.base_datetime = sup_sys_time]
       /\ ResetCompletes
            => clock' = IF tsc THEN [clock EXCEPT !.base_tsc = counter]
                               ELSE [clock EXCEPT !.base_instant = counter]]_vars

\* A TSC-build reset has installed a base counter sampled after the counter
\* moved; the frequency read at construction is still in place.
C14_Witness ==
    /\ tsc
    /\ sup_pc = "unlock"
    /\ clock.base_tsc = counter
    /\ counter > 0
    /\ clock.cpu_frequency_hz \in {mhz * HZ_PER_MHZ : mhz \in CpuMHz}

(***************************************************************************)
(* The drift report.                                                       *)
(***************************************************************************)

\* C15: the drift of a reset is sys_time - now() taken from the baseline as
\* it was before the reset stored anything, and the reset logs a warning
\* when its magnitude is at or above warning_threshold_ns and a trace when
\* it is below, whatever the drift.
C15_DriftClassified ==
    [][/\ (sup_pc = "now" /\ sup_pc' = "get_time")
            => sup_drift' = sup_sys_time - now(clock, counter)
       /\ ResetCompletes
            => log' = IF Abs(sup_drift) >= clock.warning_threshold_ns
                      THEN "warn_drift" ELSE "trace_drift"]_vars

(***************************************************************************)
(* Pairing of the two baseline samples.                                    *)
(***************************************************************************)

\* C16 as claimed: the base counter and base_datetime that a pass of
\* reset_baselines leaves are one paired reading: both are that pass's
\* samples and no time has elapsed, on either clock, between the sample of
\* the system time and the sample of the counter.
C16_Original ==
    [][ResetCompletes
         => /\ clock'.base_datetime = sup_sys_time
            /\ BaseCounter(clock') = counter
            /\ still_passes >= 1]_vars

\* C16 as amended: a pass that stores its system-time sample always goes on
\* to store its own counter sample before anything else happens to the
\* clock, with the write guard held and no reader inside, so no reader meets
\* a base counter of one pass with a base_datetime of another; the counter
\* sample is the later of the two and time may have elapsed between them.
C16_Amended ==
    /\ [](MixedBaseline => (WriteHeld /\ ~ReadHeld))
    /\ [][/\ (sup_pc = "now" /\ sup_pc' # "now")
               => /\ sup_pc' = "get_time"
                  /\ clock'.base_datetime = sup_sys_time
                  /\ sup_sys_time' = sup_sys_time
          /\ (sup_pc = "get_time" /\ sup_pc' # "get_time")
               => /\ sup_pc' = "unlock"
                  /\ clock'.base_datetime = sup_sys_time
                  /\ BaseCounter(clock') = counter
          /\ (new_pc = "get_time" /\ new_pc' # "get_time")
               => /\ sup_pc = "unspawned"
                  /\ clock'.base_datetime = clock.base_datetime
                  /\ BaseCounter(clock') = counter]_vars

\* A pass has completed after a read; the counter sample is the current
\* counter and the wall clock had moved on from the system-time sample by
\* then.
C16_Witness ==
    /\ sup_pc = "unlock"
    /\ last_now # NoRead
    /\ log \in {"warn_drift", "trace_drift"}
    /\ BaseCounter(clock) = counter
    /\ counter > 0
    /\ wall > clock.base_datetime

(***************************************************************************)
(* The lock during the sleep.                                              *)
(***************************************************************************)

\* C17: while the supervisor sleeps between two ticks, in either build, it
\* holds no guard of the lock: a reader that asks for the read access gets
\* it, and the write access is free whenever no reader is inside.
C17_SleepsUnlocked ==
    sup_pc = "sleep"
       => /\ ~WriteHeld
          /\ ReadAdmitted
          /\ ~ReadHeld => WriteAdmitted
          /\ \A r \in Readers : reader_pc[r] = "idle" => ENABLED ReadLock(r)

\* The supervisor has recalibrated and gone back to sleep, and a reader has
\* taken the read access during that sleep.
C17_Witness ==
    /\ sup_pc = "sleep"
    /\ last_now # NoRead
    /\ epoch_reads = 0
    /\ \E r \in Readers : reader_pc[r] = "locked"

(***************************************************************************)
(* The cycle subtraction.                                                  *)
(***************************************************************************)

\* C18: in the TSC build, wherever now() is evaluated -- by a reader under
\* its read guard, or by reset_baselines before it stores anything -- the
\* counter it samples is at least base_tsc, so current_tsc - base_tsc does
\* not wrap.
C18_NoUnderflow ==
    (tsc /\ (ReadHeld \/ sup_pc = "now")) => counter >= clock.base_tsc

\* A TSC-build reset is about to evaluate now() against a base counter that
\* an earlier sample set above zero, after the counter has moved on and a
\* reader has read.
C18_Witness ==
    /\ tsc
    /\ sup_pc = "now"
    /\ clock.base_tsc > 0
    /\ counter > clock.base_tsc
    /\ last_now # NoRead

====
